---- MODULE Spec2Model ----
(***************************************************************************)
(* The lifecycle state machine of libbitcoin's network::p2p                *)
(* (src/network/p2p.cpp): start / run / stop / close, the manual connect   *)
(* surface, the channel subscription and the collection forwarders.        *)
(*                                                                         *)
(* Caller threads execute the public methods one shared-memory access at a *)
(* time (pc holds each caller's position inside the method it executes);   *)
(* handlers dispatched through dispatch_ are tasks queued on the pool's    *)
(* service and are executed one at a time by the pool threads.             *)
(* The collaborators that p2p.cpp only calls (threadpool, subscriber,      *)
(* hosts, connections, pending, the sessions) are modelled by the contract *)
(* the specification gives them.                                           *)
(***************************************************************************)
EXTENDS Naturals, Sequences, FiniteSets

\* ------------------------------------------------------------------ bounds
MaxStarts   == 2    \* accepted calls of start
MaxRuns     == 1    \* calls of run
MaxSubs     == 2    \* calls of subscribe
MaxChannels == 2    \* channels offered to the collections

\* ------------------------------------------------------------ basic sets
\* The thread that owns the instance (constructs, starts, runs, closes it)
\* and a thread that uses it concurrently.
Owner   == "owner"
Client  == "client"
Callers == {Owner, Client}

success          == "success"
operation_failed == "operation_failed"
service_stopped  == "service_stopped"
file_system      == "file_system"
address_in_use   == "address_in_use"
not_found        == "not_found"
none             == "none"

\* The codes a collaborator (a session start, a hosts load or save) reports.
CollabCodes == {success, file_system}

nullptr == 0

\* Channels, the address each is connected to and its version nonce.
Channels   == 1..MaxChannels
Address(c) == (c + 1) \div 2
Nonce(c)   == c % 2
Addresses  == {Address(c) : c \in Channels}

VARIABLES
    stopped_,       \* p2p::stopped_
    manual_,        \* p2p::manual_: nullptr or the run whose session it is
    work_,          \* threadpool: the work object keeping the service alive
    threads_,       \* threadpool: TRUE while pool threads are running
    service_,       \* threadpool: the handlers queued on the service
    subscriptions,  \* subscriber_: the pending channel handlers
    connections_,   \* p2p::connections_: the channels held
    pending_,       \* p2p::pending_: the channels in handshake
    hosts_,         \* p2p::hosts_: the addresses held
    pc,             \* each caller's position
    hid,            \* each caller's current handler (the serial it has)
    op,             \* each caller: the method it executes
    ret,            \* each caller: the code its last call yielded synchronously
    fwd,            \* each caller: the session its last connect was forwarded to
    arg,            \* each caller: the argument of its collection call
    starts,         \* accepted calls of start so far
    runCalls,       \* calls of run so far
    subCalls,       \* calls of subscribe so far
    attached,       \* the sessions attached since the last accepted start
    reported,       \* the code the latest stage of the current start chain reported
    shutdowns,      \* accepted calls of stop since the last accepted start
    startH,         \* per accepted start: the codes its handler received
    runH,           \* per run call: the codes its handler received
    stopH,          \* per accepted stop: the codes its handler received
    subH,           \* per subscribe call: the codes its handler received
    runEc,          \* the code the latest stage of the latest run chain reported
    saveEc,         \* the code the latest hosts save reported
    acts            \* per caller: the shutdown actions of its current stop

pool  == <<work_, threads_, service_>>
regs  == <<connections_, pending_, hosts_>>
calls == <<pc, op, hid, ret, fwd, arg>>
count == <<starts, runCalls, subCalls>>
hist  == <<attached, reported, shutdowns, startH, runH, stopH, subH, runEc,
           saveEc, acts>>
vars  == <<stopped_, manual_, pool, subscriptions, regs, calls, count, hist>>

\* A handler queued on the service: its kind and the call it belongs to
\* (the caller and the serial of the call).
Task(k, who, n) == [k |-> k, who |-> who, n |-> n]

StopIds == Callers \X (1..MaxStarts)

NoStartH == [r \in 1..MaxStarts |-> <<>>]
NoStopH  == [s \in StopIds |-> <<>>]

\* ------------------------------------------------------------ collaborators
\* threadpool::spawn: (re)starts the pool.
spawn == /\ work_' = TRUE
         /\ threads_' = TRUE

\* threadpool::shutdown: stop accepting work, let queued work drain.
shutdown == work_' = FALSE

\* threadpool::join returns once no pool thread is running.
joined == ~threads_

\* dispatch_.concurrent_delegate(...)(ec) and the asynchronous collaborator
\* calls: the handler is queued on the service.
dispatch(task) == service_' = service_ \cup {task}

\* subscriber_->subscribe(handler): appends to the pending list.
subscriber_subscribe(id) == subscriptions' = Append(subscriptions, id)

\* subscriber_->relay(ec, channel): swaps the pending list for an empty one
\* and invokes every captured handler with the code.
RECURSIVE Notify(_, _, _)
Notify(h, list, ec) ==
    IF list = <<>> THEN h
    ELSE Notify([h EXCEPT ![Head(list)] = Append(@, ec)], Tail(list), ec)

subscriber_relay(ec) ==
    /\ subH' = Notify(subH, subscriptions, ec)
    /\ subscriptions' = <<>>

\* connections_.stop(ec): closes every held channel and clears the set.
connections_stop == connections_' = {}

\* ------------------------------------------------------------------- Init
\* p2p::p2p(const settings& settings)
Init ==
    /\ stopped_ = TRUE
    /\ manual_ = nullptr
    /\ work_ = FALSE
    /\ threads_ = FALSE
    /\ service_ = {}
    /\ subscriptions = <<>>
    /\ connections_ = {}
    /\ pending_ = {}
    /\ hosts_ = {}
    /\ pc = [t \in Callers |-> "idle"]
    /\ hid = [t \in Callers |-> 0]
    /\ op = [t \in Callers |-> none]
    /\ ret = [t \in Callers |-> none]
    /\ fwd = [t \in Callers |-> none]
    /\ arg = [t \in Callers |-> none]
    /\ starts = 0
    /\ runCalls = 0
    /\ subCalls = 0
    /\ attached = {}
    /\ reported = none
    /\ shutdowns = 0
    /\ startH = NoStartH
    /\ runH = [r \in 1..MaxRuns |-> <<>>]
    /\ stopH = NoStopH
    /\ runEc = none
    /\ saveEc = none
    /\ subH = [s \in 1..MaxSubs |-> <<>>]
    /\ acts = [t \in Callers |-> <<>>]

\* A caller moves from position a to position b.
Goto(t, a, b) == /\ pc[t] = a
                 /\ pc' = [pc EXCEPT ![t] = b]

\* A caller enters method m; the method's first statement acts in the same
\* step.
Call(t, m) == /\ pc[t] = "idle"
              /\ op' = [op EXCEPT ![t] = m]

\* The method invokes the handler it was given with a code, synchronously,
\* and returns.
Yield(t, code) == /\ ret' = [ret EXCEPT ![t] = code]
                  /\ pc' = [pc EXCEPT ![t] = "return"]

\* The caller is back from the method.
Back(t) == op' = [op EXCEPT ![t] = none]

\* start with the stopped check left out (every call is accepted).
start_check_accepting(t) ==
    /\ starts < MaxStarts
    /\ Call(t, "start")
    /\ ret' = ret
    /\ pc' = [pc EXCEPT ![t] = "start_set"]
    /\ UNCHANGED <<stopped_, manual_, pool, subscriptions, regs, hid, fwd,
                   arg, count, hist>>

\* ------------------------------------------------------------------ start
\* if (!stopped()) { handler(error::operation_failed); return; }
start_check(t) ==
    /\ starts < MaxStarts
    /\ Call(t, "start")
    /\ IF ~stopped_
         THEN Yield(t, operation_failed)
         ELSE /\ ret' = ret
              /\ pc' = [pc EXCEPT ![t] = "start_set"]
    /\ UNCHANGED <<stopped_, manual_, pool, subscriptions, regs, hid, fwd,
                   arg, count, hist>>

\* stopped_ = false;
\* (The records of the previous run's handlers are dropped here.)
start_set(t) ==
    /\ Goto(t, "start_set", "start_join")
    /\ stopped_' = FALSE
    /\ starts' = starts + 1
    /\ hid' = [hid EXCEPT ![t] = starts + 1]
    /\ attached' = {}
    /\ reported' = none
    /\ shutdowns' = 0
    /\ startH' = NoStartH
    /\ stopH' = NoStopH
    /\ saveEc' = none
    /\ UNCHANGED <<manual_, pool, subscriptions, regs, op, ret, fwd, arg,
                   runCalls, subCalls, runH, runEc, subH, acts>>

\* pool_.join(); pool_.spawn(settings_.threads, thread_priority::low);
start_join(t) ==
    /\ Goto(t, "start_join", "start_attach")
    /\ joined
    /\ spawn
    /\ UNCHANGED <<stopped_, manual_, service_, subscriptions, regs, hid, op,
                   ret, fwd, arg, count, hist>>

\* manual_ = attach<session_manual>(settings_); manual_->start(delegate);
start_attach(t) ==
    /\ Goto(t, "start_attach", "idle")
    /\ manual_' = hid[t]
    /\ attached' = attached \cup {<<"manual", hid[t]>>}
    /\ dispatch(Task("manual_start", t, hid[t]))
    /\ hid' = [hid EXCEPT ![t] = 0]
    /\ Back(t)
    /\ UNCHANGED <<stopped_, work_, threads_, subscriptions, regs, ret, fwd,
                   arg, count, reported, shutdowns, startH, runH, runEc,
                   stopH, saveEc, subH, acts>>

\* return; (after the handler was invoked synchronously with a code)
return(t) ==
    /\ Goto(t, "return", "idle")
    /\ Back(t)
    /\ ret' = [ret EXCEPT ![t] = none]
    /\ fwd' = [fwd EXCEPT ![t] = none]
    /\ arg' = [arg EXCEPT ![t] = none]
    /\ UNCHANGED <<stopped_, manual_, pool, subscriptions, regs, hid, count,
                   hist>>

start(t) ==
    \/ start_check(t)
    \/ start_set(t)
    \/ start_join(t)
    \/ start_attach(t)

\* A pool thread takes a queued handler of kind k off the service.
Take(task, k) == /\ threads_
                 /\ task \in service_
                 /\ task.k = k

\* The handler replaces itself on the service by the next one of its chain.
Chain(task, k) ==
    service_' = (service_ \ {task}) \cup {Task(k, task.who, task.n)}

\* The handler is done and queues nothing.
Done(task) == service_' = service_ \ {task}

\* handler(code) of the start that the task belongs to.
StartHandler(task, code) ==
    startH' = [startH EXCEPT ![task.n] = Append(@, code)]

\* The stage of the current start chain reported ec.
Reported(task, ec) ==
    reported' = IF task.n = starts THEN ec ELSE reported

\* The Manual continuation going on to the Hosts load whatever the code.
handle_manual_started_ignoring(task, ec) ==
    /\ Take(task, "manual_start")
    /\ Reported(task, ec)
    /\ IF stopped_
         THEN /\ StartHandler(task, service_stopped)
              /\ Done(task)
         ELSE /\ Chain(task, "hosts_load")
              /\ startH' = startH
    /\ UNCHANGED <<stopped_, manual_, work_, threads_, subscriptions, regs,
                   calls, count, attached, shutdowns, runH, runEc, stopH,
                   saveEc, subH, acts>>

\* void p2p::handle_manual_started(const code& ec, result_handler handler)
\* The Manual session's start, queued on the service by start, reports ec
\* through the delegate and the pool runs handle_manual_started(ec).
handle_manual_started(task, ec) ==
    /\ Take(task, "manual_start")
    /\ Reported(task, ec)
    /\ IF stopped_
         THEN /\ StartHandler(task, service_stopped)
              /\ Done(task)
         ELSE IF ec # success
         THEN /\ StartHandler(task, ec)
              /\ Done(task)
         ELSE /\ Chain(task, "hosts_load")
              /\ startH' = startH
    /\ UNCHANGED <<stopped_, manual_, work_, threads_, subscriptions, regs,
                   calls, count, attached, shutdowns, runH, runEc, stopH,
                   saveEc, subH, acts>>

\* The Hosts-load continuation looking at the reported code before the
\* stopped flag.
handle_hosts_loaded_code_first(task, ec) ==
    /\ Take(task, "hosts_load")
    /\ Reported(task, ec)
    /\ IF ec # success
         THEN /\ StartHandler(task, ec)
              /\ Done(task)
              /\ attached' = attached
         ELSE IF stopped_
         THEN /\ StartHandler(task, service_stopped)
              /\ Done(task)
              /\ attached' = attached
         ELSE /\ attached' = attached \cup {<<"seed", task.n>>}
              /\ Chain(task, "seed_start")
              /\ startH' = startH
    /\ UNCHANGED <<stopped_, manual_, work_, threads_, subscriptions, regs,
                   calls, count, shutdowns, runH, runEc, stopH, saveEc, subH,
                   acts>>

\* void p2p::handle_hosts_loaded(const code& ec, result_handler handler)
\* hosts_.load reports ec through the delegate.
handle_hosts_loaded(task, ec) ==
    /\ Take(task, "hosts_load")
    /\ Reported(task, ec)
    /\ IF stopped_
         THEN /\ StartHandler(task, service_stopped)
              /\ Done(task)
              /\ attached' = attached
         ELSE IF ec # success
         THEN /\ StartHandler(task, ec)
              /\ Done(task)
              /\ attached' = attached
         ELSE /\ attached' = attached \cup {<<"seed", task.n>>}
              /\ Chain(task, "seed_start")
              /\ startH' = startH
    /\ UNCHANGED <<stopped_, manual_, work_, threads_, subscriptions, regs,
                   calls, count, shutdowns, runH, runEc, stopH, saveEc, subH,
                   acts>>

\* The Seed continuation reporting a failure where the code reports success.
handle_hosts_seeded_failing(task, ec) ==
    /\ Take(task, "seed_start")
    /\ Reported(task, ec)
    /\ Done(task)
    /\ IF stopped_
         THEN StartHandler(task, service_stopped)
         ELSE StartHandler(task, operation_failed)
    /\ UNCHANGED <<stopped_, manual_, work_, threads_, subscriptions, regs,
                   calls, count, attached, shutdowns, runH, runEc, stopH,
                   saveEc, subH, acts>>

\* void p2p::handle_hosts_seeded(const code& ec, result_handler handler)
\* The Seed session's start reports ec through the delegate.
handle_hosts_seeded(task, ec) ==
    /\ Take(task, "seed_start")
    /\ Reported(task, ec)
    /\ Done(task)
    /\ IF stopped_
         THEN StartHandler(task, service_stopped)
         ELSE IF ec # success
         THEN StartHandler(task, ec)
         ELSE StartHandler(task, success)
    /\ UNCHANGED <<stopped_, manual_, work_, threads_, subscriptions, regs,
                   calls, count, attached, shutdowns, runH, runEc, stopH,
                   saveEc, subH, acts>>

\* -------------------------------------------------------------------- run
\* void p2p::run(result_handler handler)
run(t) ==
    /\ runCalls < MaxRuns
    /\ pc[t] = "idle"
    /\ runCalls' = runCalls + 1
    /\ attached' = attached \cup {<<"inbound", runCalls + 1>>}
    /\ dispatch(Task("inbound_start", t, runCalls + 1))
    /\ UNCHANGED <<stopped_, manual_, work_, threads_, subscriptions, regs,
                   calls, starts, subCalls, reported, shutdowns, startH, runH,
                   runEc, stopH, saveEc, subH, acts>>

\* The stage of the latest run chain reported ec.
RunReported(task, ec) ==
    runEc' = IF task.n = runCalls THEN ec ELSE runEc

\* handler(code) of the run that the task belongs to.
RunHandler(task, code) ==
    runH' = [runH EXCEPT ![task.n] = Append(@, code)]

\* The Inbound continuation starting the Outbound session whatever the code.
handle_inbound_started_ignoring(task, ec) ==
    /\ Take(task, "inbound_start")
    /\ RunReported(task, ec)
    /\ attached' = attached \cup {<<"outbound", task.n>>}
    /\ Chain(task, "outbound_start")
    /\ runH' = runH
    /\ UNCHANGED <<stopped_, manual_, work_, threads_, subscriptions, regs,
                   calls, count, reported, shutdowns, startH, stopH, saveEc,
                   subH, acts>>

\* void p2p::handle_inbound_started(const code& ec, result_handler handler)
\* The Inbound session's start reports ec through the delegate.
handle_inbound_started(task, ec) ==
    /\ Take(task, "inbound_start")
    /\ RunReported(task, ec)
    /\ IF ec # success
         THEN /\ RunHandler(task, ec)
              /\ Done(task)
              /\ attached' = attached
         ELSE /\ attached' = attached \cup {<<"outbound", task.n>>}
              /\ Chain(task, "outbound_start")
              /\ runH' = runH
    /\ UNCHANGED <<stopped_, manual_, work_, threads_, subscriptions, regs,
                   calls, count, reported, shutdowns, startH, stopH, saveEc,
                   subH, acts>>

\* void p2p::handle_outbound_started(const code& ec, result_handler handler)
\* The Outbound session's start reports ec through the delegate.
handle_outbound_started(task, ec) ==
    /\ Take(task, "outbound_start")
    /\ RunReported(task, ec)
    /\ Done(task)
    /\ IF ec # success
         THEN RunHandler(task, ec)
         ELSE RunHandler(task, success)
    /\ UNCHANGED <<stopped_, manual_, work_, threads_, subscriptions, regs,
                   calls, count, attached, reported, shutdowns, startH, stopH,
                   saveEc, subH, acts>>

\* ------------------------------------------------------------------- stop
\* The caller's stop has performed one more shutdown action.
Did(t, a) == acts' = [acts EXCEPT ![t] = Append(@, a)]

\* stop with the stopped check left out (every call runs the shutdown).
stop_check_accepting(t, c) ==
    /\ Call(t, IF c THEN "close" ELSE "stop")
    /\ ret' = ret
    /\ pc' = [pc EXCEPT ![t] = "stop_set"]
    /\ hid' = [hid EXCEPT ![t] = starts]
    /\ UNCHANGED <<stopped_, manual_, pool, subscriptions, regs, fwd, arg,
                   count, hist>>

\* if (stopped()) { handler(error::service_stopped); return; }
\* (c is TRUE when the call is the one close makes; its handler discards.)
stop_check(t, c) ==
    /\ Call(t, IF c THEN "close" ELSE "stop")
    /\ IF stopped_
         THEN /\ ret' = [ret EXCEPT ![t] = service_stopped]
              /\ pc' = [pc EXCEPT ![t] = IF c THEN "close_join" ELSE "return"]
              /\ hid' = hid
         ELSE /\ ret' = ret
              /\ pc' = [pc EXCEPT ![t] = "stop_set"]
              /\ hid' = [hid EXCEPT ![t] = starts]
    /\ UNCHANGED <<stopped_, manual_, pool, subscriptions, regs, fwd, arg,
                   count, hist>>

\* stopped_ = true;
stop_set(t) ==
    /\ Goto(t, "stop_set", "stop_manual")
    /\ stopped_' = TRUE
    /\ shutdowns' = shutdowns + 1
    /\ Did(t, "stopped")
    /\ UNCHANGED <<manual_, pool, subscriptions, regs, hid, op, ret, fwd, arg,
                   count, attached, reported, startH, runH, runEc, stopH,
                   saveEc, subH>>

\* stop going from the release of the Manual session straight to the
\* connections, with no relay to the subscriptions.
stop_manual_no_relay(t) ==
    /\ Goto(t, "stop_manual", "stop_connections")
    /\ manual_' = nullptr
    /\ Did(t, "manual")
    /\ UNCHANGED <<stopped_, pool, subscriptions, regs, hid, op, ret, fwd,
                   arg, count, attached, reported, shutdowns, startH, runH,
                   runEc, stopH, saveEc, subH>>

\* manual_ = nullptr;
stop_manual(t) ==
    /\ Goto(t, "stop_manual", "stop_relay")
    /\ manual_' = nullptr
    /\ Did(t, "manual")
    /\ UNCHANGED <<stopped_, pool, subscriptions, regs, hid, op, ret, fwd,
                   arg, count, attached, reported, shutdowns, startH, runH,
                   runEc, stopH, saveEc, subH>>

\* relay(error::service_stopped, nullptr);
stop_relay(t) ==
    /\ Goto(t, "stop_relay", "stop_connections")
    /\ subscriber_relay(service_stopped)
    /\ Did(t, "relay")
    /\ UNCHANGED <<stopped_, manual_, pool, regs, hid, op, ret, fwd, arg,
                   count, attached, reported, shutdowns, startH, runH, runEc,
                   stopH, saveEc>>

\* connections_.stop(error::service_stopped);
stop_connections(t) ==
    /\ Goto(t, "stop_connections", "stop_save")
    /\ connections_stop
    /\ Did(t, "connections")
    /\ UNCHANGED <<stopped_, manual_, pool, subscriptions, pending_, hosts_,
                   hid, op, ret, fwd, arg, count, attached, reported,
                   shutdowns, startH, runH, runEc, stopH, saveEc, subH>>

\* hosts_.save(hosts_save_handler);
stop_save(t) ==
    /\ Goto(t, "stop_save", "stop_shutdown")
    /\ dispatch(Task("hosts_save", t, hid[t]))
    /\ Did(t, "save")
    /\ UNCHANGED <<stopped_, manual_, work_, threads_, subscriptions, regs,
                   hid, op, ret, fwd, arg, count, attached, reported,
                   shutdowns, startH, runH, runEc, stopH, saveEc, subH>>

\* pool_.shutdown();
stop_shutdown(t) ==
    /\ pc[t] = "stop_shutdown"
    /\ pc' = [pc EXCEPT ![t] = IF op[t] = "close" THEN "close_join" ELSE "idle"]
    /\ op' = [op EXCEPT ![t] = IF op[t] = "close" THEN "close" ELSE none]
    /\ hid' = [hid EXCEPT ![t] = 0]
    /\ shutdown
    /\ acts' = [acts EXCEPT ![t] = <<>>]
    /\ UNCHANGED <<stopped_, manual_, threads_, service_, subscriptions, regs,
                   ret, fwd, arg, count, attached, reported, shutdowns,
                   startH, runH, runEc, stopH, saveEc, subH>>

\* The hosts-save completion reporting success whatever the save reported.
handle_hosts_saved_masking(task, ec) ==
    /\ Take(task, "hosts_save")
    /\ Done(task)
    /\ stopH' = [stopH EXCEPT ![<<task.who, task.n>>] = Append(@, success)]
    /\ saveEc' = ec
    /\ UNCHANGED <<stopped_, manual_, work_, threads_, subscriptions, regs,
                   calls, count, attached, reported, shutdowns, startH, runH,
                   runEc, subH, acts>>

\* void p2p::handle_hosts_saved(const code& ec, result_handler handler)
\* hosts_.save, queued on the service by stop, completes with ec and invokes
\* the handler stop bound for it.
handle_hosts_saved(task, ec) ==
    /\ Take(task, "hosts_save")
    /\ Done(task)
    /\ stopH' = [stopH EXCEPT ![<<task.who, task.n>>] = Append(@, ec)]
    /\ saveEc' = ec
    /\ UNCHANGED <<stopped_, manual_, work_, threads_, subscriptions, regs,
                   calls, count, attached, reported, shutdowns, startH, runH,
                   runEc, subH, acts>>

stop(t) ==
    \/ stop_check(t, FALSE)
    \/ stop_set(t)
    \/ stop_manual(t)
    \/ stop_relay(t)
    \/ stop_connections(t)
    \/ stop_save(t)
    \/ stop_shutdown(t)

\* ------------------------------------------------------------------ close
\* stop([](code){}); pool_.join();     (also p2p::~p2p)
close_join(t) ==
    /\ Goto(t, "close_join", "idle")
    /\ joined
    /\ Back(t)
    /\ ret' = [ret EXCEPT ![t] = none]
    /\ UNCHANGED <<stopped_, manual_, pool, subscriptions, regs, hid, fwd,
                   arg, count, hist>>

close(t) ==
    \/ stop_check(t, TRUE)
    \/ close_join(t)

\* ------------------------------------------------------------------- pool
\* A pool thread returns from service_.run() once the work object is gone
\* and no handler is queued.
thread_exit ==
    /\ threads_
    /\ ~work_
    /\ service_ = {}
    /\ threads_' = FALSE
    /\ UNCHANGED <<stopped_, manual_, work_, service_, subscriptions, regs,
                   calls, count, hist>>

\* The start chain's handlers, as the pool runs them.
start_chain(task, ec) ==
    \/ handle_manual_started(task, ec)
    \/ handle_hosts_loaded(task, ec)
    \/ handle_hosts_seeded(task, ec)

\* -------------------------------------------------------------- subscribe
\* void p2p::subscribe(channel_handler handler)
\*     if (stopped()) handler(error::service_stopped, nullptr);
subscribe_check(t) ==
    /\ subCalls < MaxSubs
    /\ Call(t, "subscribe")
    /\ subCalls' = subCalls + 1
    /\ IF stopped_
         THEN /\ subH' = [subH EXCEPT ![subCalls + 1] = Append(@, service_stopped)]
              /\ Yield(t, service_stopped)
              /\ hid' = hid
         ELSE /\ subH' = subH
              /\ pc' = [pc EXCEPT ![t] = "subscribe_add"]
              /\ hid' = [hid EXCEPT ![t] = subCalls + 1]
              /\ ret' = ret
    /\ UNCHANGED <<stopped_, manual_, pool, subscriptions, regs, fwd, arg,
                   starts, runCalls, attached, reported, shutdowns, startH,
                   runH, runEc, stopH, saveEc, acts>>

\*     else subscriber_->subscribe(handler);
subscribe_add(t) ==
    /\ Goto(t, "subscribe_add", "idle")
    /\ subscriber_subscribe(hid[t])
    /\ hid' = [hid EXCEPT ![t] = 0]
    /\ Back(t)
    /\ UNCHANGED <<stopped_, manual_, pool, regs, ret, fwd, arg, count, hist>>

subscribe(t) ==
    \/ subscribe_check(t)
    \/ subscribe_add(t)

\* relay invoking the pending handlers and keeping them pending.
relay_keeping(t) ==
    /\ pc[t] = "idle"
    /\ subscriptions # <<>>
    /\ subH' = Notify(subH, subscriptions, success)
    /\ subscriptions' = subscriptions
    /\ op' = op
    /\ UNCHANGED <<stopped_, manual_, pool, regs, pc, hid, ret, fwd, arg,
                   count, attached, reported, shutdowns, startH, runH, runEc,
                   stopH, saveEc, acts>>

\* void p2p::relay(const code& ec, channel::ptr channel)
\* (a session relays a channel it has established; with no subscription
\* pending the call changes nothing)
relay(t) ==
    /\ pc[t] = "idle"
    /\ subscriptions # <<>>
    /\ subscriber_relay(success)
    /\ op' = op
    /\ UNCHANGED <<stopped_, manual_, pool, regs, pc, hid, ret, fwd, arg,
                   count, attached, reported, shutdowns, startH, runH, runEc,
                   stopH, saveEc, acts>>

\* ---------------------------------------------------------------- connect
\* void p2p::connect(const std::string& hostname, uint16_t port)
\*     if (stopped()) return;
\* void p2p::connect(hostname, port, channel_handler handler)
\*     if (stopped()) handler(error::service_stopped, nullptr);
\* (h is TRUE for the overload that takes a handler.)
connect_check(t, h) ==
    /\ Call(t, IF h THEN "connect_handler" ELSE "connect")
    /\ IF stopped_
         THEN Yield(t, IF h THEN service_stopped ELSE none)
         ELSE /\ ret' = ret
              /\ pc' = [pc EXCEPT ![t] = "connect_forward"]
    /\ UNCHANGED <<stopped_, manual_, pool, subscriptions, regs, hid, fwd,
                   arg, count, hist>>

\* manual_->connect(hostname, port [, handler]);
connect_forward(t) ==
    /\ Goto(t, "connect_forward", "return")
    /\ fwd' = [fwd EXCEPT ![t] = manual_]
    /\ UNCHANGED <<stopped_, manual_, pool, subscriptions, regs, op, hid, ret,
                   arg, count, hist>>

connect(t) ==
    \/ connect_check(t, FALSE)
    \/ connect_check(t, TRUE)
    \/ connect_forward(t)

\* ------------------------------------------------------------ collections
\* The collections serialize their operations, each is one step; the handler
\* receives the outcome.
Forwarded(t, m, x, code) ==
    /\ Call(t, m)
    /\ arg' = [arg EXCEPT ![t] = x]
    /\ Yield(t, code)
    /\ UNCHANGED <<stopped_, manual_, pool, subscriptions, hid, fwd, count,
                   hist>>

\* void p2p::pend(channel::ptr channel, result_handler handler)
\* pending_.store: rejected when the nonce is already pending.
pend(t, c) ==
    IF \E x \in pending_ : Nonce(x) = Nonce(c)
      THEN /\ Forwarded(t, "pend", c, address_in_use)
           /\ UNCHANGED regs
      ELSE /\ Forwarded(t, "pend", c, success)
           /\ pending_' = pending_ \cup {c}
           /\ UNCHANGED <<connections_, hosts_>>

\* void p2p::unpend(channel::ptr channel, result_handler handler)
\* pending_.remove: removing an unknown channel is a no-op.
unpend(t, c) ==
    /\ Forwarded(t, "unpend", c, success)
    /\ pending_' = pending_ \ {c}
    /\ UNCHANGED <<connections_, hosts_>>

\* store replacing the channel held for the address by the new one.
store_channel_evicting(t, c) ==
    /\ Forwarded(t, "store_channel", c, success)
    /\ connections_' = {x \in connections_ : Address(x) # Address(c)} \cup {c}
    /\ UNCHANGED <<pending_, hosts_>>

\* void p2p::store(channel::ptr channel, result_handler handler)
\* connections_.store: fails when the address is already present.
store_channel(t, c) ==
    IF \E x \in connections_ : Address(x) = Address(c)
      THEN /\ Forwarded(t, "store_channel", c, address_in_use)
           /\ UNCHANGED regs
      ELSE /\ Forwarded(t, "store_channel", c, success)
           /\ connections_' = connections_ \cup {c}
           /\ UNCHANGED <<pending_, hosts_>>

\* void p2p::remove(channel::ptr channel, result_handler handler)
remove_channel(t, c) ==
    IF c \in connections_
      THEN /\ Forwarded(t, "remove_channel", c, success)
           /\ connections_' = connections_ \ {c}
           /\ UNCHANGED <<pending_, hosts_>>
      ELSE /\ Forwarded(t, "remove_channel", c, not_found)
           /\ UNCHANGED regs

\* void p2p::store(const address& address, result_handler handler)
\* void p2p::store(const address::list& addresses, result_handler handler)
store_addresses(t, list) ==
    /\ Forwarded(t, "store_address", list, success)
    /\ hosts_' = hosts_ \cup list
    /\ UNCHANGED <<connections_, pending_>>

\* void p2p::remove(const address& address, result_handler handler)
remove_address(t, a) ==
    IF a \in hosts_
      THEN /\ Forwarded(t, "remove_address", a, success)
           /\ hosts_' = hosts_ \ {a}
           /\ UNCHANGED <<connections_, pending_>>
      ELSE /\ Forwarded(t, "remove_address", a, not_found)
           /\ UNCHANGED regs

\* void p2p::connected(const address& address, truth_handler handler)
\* connections_.exists: whether a channel to the address is held.
connected(a) == \E x \in connections_ : Address(x) = a

\* void p2p::connected_count(count_handler handler)
connected_count == Cardinality(connections_)

\* The methods that change a collection.
Mutators == {"pend", "unpend", "store_channel", "remove_channel",
             "store_address", "remove_address"}

\* ================================================================ claims
\* The shutdown actions of an accepted stop, in the order of the code.
ShutdownOrder == <<"stopped", "manual", "relay", "connections", "save">>

\* ---------------------------------------------------------------------- C1
\* C1: a call of start while the instance is not stopped yields
\* operation_failed, and neither that step nor the caller's return changes
\* the stopped flag, the Manual session, the pool, the collections, the
\* subscriptions or the attached sessions; no start is counted as accepted.
C1_StartRejected ==
    [][\A t \in Callers :
        /\ (pc[t] = "idle" /\ op'[t] = "start" /\ ~stopped_)
              => /\ ret'[t] = operation_failed
                 /\ pc'[t] = "return"
                 /\ UNCHANGED <<stopped_, manual_, pool, regs, subscriptions,
                                attached, starts>>
        /\ (pc[t] = "return" /\ op[t] = "start" /\ pc'[t] = "idle")
              => /\ ret[t] = operation_failed
                 /\ UNCHANGED <<stopped_, manual_, pool, regs, subscriptions,
                                attached, starts>>
      ]_vars

\* start was rejected on a started instance that holds its Manual session.
C1_Witness ==
    /\ pc[Owner] = "return"
    /\ op[Owner] = "start"
    /\ ret[Owner] = operation_failed
    /\ ~stopped_
    /\ manual_ # nullptr
    /\ work_

\* ---------------------------------------------------------------------- C2
\* C2: a start that follows an accepted start and an accepted stop is
\* accepted when the instance is stopped; its join-and-spawn step leaves the
\* pool running with work, its attach step retains a new Manual session, and
\* when no stop has been accepted since and the last stage reported success
\* the handler has received exactly success.
C2_Restartable ==
    [][/\ (pc[Owner] = "idle" /\ op'[Owner] = "start" /\ stopped_
             /\ starts >= 1)
             => /\ pc'[Owner] = "start_set"
                /\ ret'[Owner] # operation_failed
       /\ (pc[Owner] = "start_join" /\ pc'[Owner] = "start_attach")
             => (work_' /\ threads_')
       /\ (pc[Owner] = "start_attach" /\ pc'[Owner] = "idle" /\ starts >= 2)
             => /\ manual_' = starts
                /\ manual_' # manual_
                /\ <<"manual", starts>> \in attached'
                /\ Task("manual_start", Owner, starts) \in service_'
       /\ (starts' >= 2 /\ startH'[starts'] # <<>> /\ shutdowns' = 0
             /\ reported' = success)
             => startH'[starts'] = <<success>>
      ]_vars

\* The second start has delivered success with no stop since.
C2_Witness ==
    /\ starts = 2
    /\ startH[2] = <<success>>
    /\ shutdowns = 0
    /\ manual_ = 2
    /\ work_ /\ threads_
    /\ {<<"manual", 2>>, <<"seed", 2>>} \subseteq attached

\* ---------------------------------------------------------------------- C3
\* C3: a call of stop on a stopped instance yields service_stopped and the
\* caller returns without entering the shutdown: no subscription is relayed
\* to, the connections are not stopped, no hosts save is queued and the pool
\* gets no shutdown signal.
C3_StopRejected ==
    [][\A t \in Callers :
        /\ (pc[t] = "idle" /\ op'[t] = "stop" /\ stopped_)
              => /\ ret'[t] = service_stopped
                 /\ pc'[t] = "return"
                 /\ UNCHANGED <<stopped_, manual_, pool, regs, subscriptions,
                                subH, stopH, shutdowns, acts>>
        /\ (pc[t] = "return" /\ op[t] = "stop" /\ pc'[t] = "idle")
              => /\ ret[t] = service_stopped
                 /\ UNCHANGED <<stopped_, manual_, pool, regs, subscriptions,
                                subH, stopH, shutdowns, acts>>
      ]_vars

\* A second stop was rejected while channels are held and the pool still
\* has its work.
C3_Witness ==
    /\ pc[Client] = "return"
    /\ op[Client] = "stop"
    /\ ret[Client] = service_stopped
    /\ shutdowns = 1
    /\ pc[Owner] = "idle"
    /\ connections_ # {}

\* ---------------------------------------------------------------------- C4
\* An accepted stop has completed: it returned and its handler was invoked.
StopCompleted ==
    /\ stopped_
    /\ shutdowns >= 1
    /\ \A t \in Callers : pc[t] = "idle"
    /\ \A task \in service_ : task.k # "hosts_save"
    /\ \E id \in StopIds : stopH[id] # <<>>

\* C4: once an accepted stop has completed, a call of connect with a
\* handler, of subscribe or of a collection mutator yields service_stopped
\* at once and changes no collection and no subscription; connect without a
\* handler returns at once and changes none either.
C4_StoppedRejectsAll ==
    [][\A t \in Callers :
        /\ (StopCompleted /\ op'[t] \in Mutators \cup
                              {"connect_handler", "subscribe"})
              => /\ ret'[t] = service_stopped
                 /\ pc'[t] = "return"
                 /\ UNCHANGED <<regs, subscriptions>>
        /\ (StopCompleted /\ op'[t] = "connect")
              => /\ pc'[t] = "return"
                 /\ UNCHANGED <<regs, subscriptions>>
      ]_vars

\* ---------------------------------------------------------------------- C5
\* C5: once the handler of the latest start has received a stage's failure,
\* the instance is stopped and holds no Manual session.
C5_FailedStartStopped ==
    \A n \in 1..MaxStarts :
        (n = starts /\ startH[n] # <<>> /\ Head(startH[n]) \in CollabCodes \ {success})
           => (stopped_ /\ manual_ = nullptr)

\* ---------------------------------------------------------------------- C6
\* The kinds of queued handler of the start chain and of the run chain.
StartStages == {"manual_start", "hosts_load", "seed_start"}
RunStages   == {"inbound_start", "outbound_start"}

\* C6: a continuation of the start chain that the pool runs while the
\* instance is stopped invokes the start's handler with service_stopped,
\* whatever code the stage reported, queues no further stage, and attaches
\* no session.
C6_StartChainStopped ==
    [][\A task \in service_ :
        (stopped_ /\ task.k \in StartStages /\ task \notin service_')
           => /\ startH' = [startH EXCEPT ![task.n] = Append(@, service_stopped)]
              /\ service_' = service_ \ {task}
              /\ attached' = attached
              /\ manual_' = manual_
      ]_vars

\* A stage reported its own failure to a continuation that found the
\* instance stopped: the handler received service_stopped instead.
C6_Witness ==
    /\ starts >= 1
    /\ reported = file_system
    /\ startH[starts] = <<service_stopped>>
    /\ stopped_

\* ---------------------------------------------------------------------- C7
\* C7: an accepted stop runs its shutdown actions one after the other in
\* the order of ShutdownOrder, each with its effect (flag set, Manual
\* session released, every pending subscription notified with
\* service_stopped and the list emptied, connections emptied, hosts save
\* queued with the stop's handler, pool told to shut down), and returns only
\* from the last one; the hosts-save completion invokes the handler, queues
\* nothing and runs no shutdown action.
C7_StopOrder ==
    [][/\ \A t \in Callers :
          /\ (pc[t] = "idle" /\ op'[t] \in {"stop", "close"} /\ ~stopped_)
                => (pc'[t] = "stop_set" /\ acts'[t] = <<>>)
          /\ (pc[t] = "stop_set" /\ pc'[t] # pc[t])
                => /\ stopped_'
                   /\ acts'[t] = SubSeq(ShutdownOrder, 1, 1)
                   /\ pc'[t] = "stop_manual"
          /\ (pc[t] = "stop_manual" /\ pc'[t] # pc[t])
                => /\ manual_' = nullptr
                   /\ acts'[t] = SubSeq(ShutdownOrder, 1, 2)
                   /\ pc'[t] = "stop_relay"
          /\ (pc[t] = "stop_relay" /\ pc'[t] # pc[t])
                => /\ subscriptions' = <<>>
                   /\ \A i \in 1..Len(subscriptions) :
                        subH'[subscriptions[i]] =
                            Append(subH[subscriptions[i]], service_stopped)
                   /\ acts'[t] = SubSeq(ShutdownOrder, 1, 3)
                   /\ pc'[t] = "stop_connections"
          /\ (pc[t] = "stop_connections" /\ pc'[t] # pc[t])
                => /\ connections_' = {}
                   /\ acts'[t] = SubSeq(ShutdownOrder, 1, 4)
                   /\ pc'[t] = "stop_save"
          /\ (pc[t] = "stop_save" /\ pc'[t] # pc[t])
                => /\ Task("hosts_save", t, hid[t]) \in service_'
                   /\ acts'[t] = ShutdownOrder
                   /\ pc'[t] = "stop_shutdown"
          /\ (pc[t] = "stop_shutdown" /\ pc'[t] # pc[t])
                => /\ acts[t] = ShutdownOrder
                   /\ ~work_'
          /\ (op[t] = "stop" /\ op'[t] = none /\ pc[t] # "return")
                => pc[t] = "stop_shutdown"
       /\ \A task \in service_ :
            (task.k = "hosts_save" /\ task \notin service_')
               => /\ service_' = service_ \ {task}
                  /\ Len(stopH'[<<task.who, task.n>>]) =
                         Len(stopH[<<task.who, task.n>>]) + 1
                  /\ UNCHANGED <<stopped_, manual_, work_, subscriptions,
                                 connections_, shutdowns, subH>>
      ]_vars

\* An accepted stop is about to signal the pool, having done the five other
\* actions, one of which notified a pending subscription.
C7_Witness ==
    /\ pc[Client] = "stop_shutdown"
    /\ acts[Client] = ShutdownOrder
    /\ \E s \in 1..MaxSubs : subH[s] = <<service_stopped>>
    /\ Task("hosts_save", Client, hid[Client]) \in service_
    /\ work_

\* ---------------------------------------------------------------------- C8
\* C8: close can always return: whenever close waits for the pool to join
\* while no other call is in progress and no handler is queued, the pool is
\* shutting down or has already joined.
C8_CloseReturns ==
    (pc[Owner] = "close_join" /\ pc[Client] = "idle" /\ service_ = {})
       => (~work_ \/ ~threads_)

\* ---------------------------------------------------------------------- C9
\* C9: once stop has returned and no call is in progress, no subscription
\* is left pending.
C9_NoSubscriptionLeft ==
    (stopped_ /\ shutdowns >= 1 /\ \A t \in Callers : pc[t] = "idle")
       => subscriptions = <<>>

\* --------------------------------------------------------------------- C10
\* C10: a continuation of the start chain or of the run chain that the pool
\* runs while the instance is stopped invokes the chain's handler with
\* service_stopped, queues no further stage and attaches no session.
C10_ChainsCheckStopped ==
    [][\A task \in service_ :
        (stopped_ /\ task.k \in StartStages \cup RunStages
                  /\ task \notin service_')
           => /\ service_' = service_ \ {task}
              /\ attached' = attached
              /\ task.k \in StartStages
                   => startH' = [startH EXCEPT
                                   ![task.n] = Append(@, service_stopped)]
              /\ task.k \in RunStages
                   => runH' = [runH EXCEPT
                                 ![task.n] = Append(@, service_stopped)]
      ]_vars

\* --------------------------------------------------------------------- C11
\* C11: a continuation of the current start chain that the pool runs while
\* the instance is not stopped passes a stage's failure code unchanged to
\* the handler and queues and attaches nothing; on success the Manual stage
\* only queues the Hosts load, the Hosts load only attaches and starts the
\* Seed session, and the Seed stage only delivers success.  A Hosts load is
\* queued only by the Manual continuation, a Seed start only by the Hosts
\* continuation, and success is delivered only by the Seed continuation.
C11_StartChainOrder ==
    [][/\ \A task \in service_ :
            (~stopped_ /\ task.k \in StartStages /\ task \notin service_'
                /\ task.n = starts)
               => IF reported' # success
                    THEN /\ startH' = [startH EXCEPT
                                         ![task.n] = Append(@, reported')]
                         /\ service_' = service_ \ {task}
                         /\ attached' = attached
                    ELSE CASE task.k = "manual_start" ->
                                /\ service_' = (service_ \ {task}) \cup
                                     {Task("hosts_load", task.who, task.n)}
                                /\ startH' = startH
                                /\ attached' = attached
                           [] task.k = "hosts_load" ->
                                /\ service_' = (service_ \ {task}) \cup
                                     {Task("seed_start", task.who, task.n)}
                                /\ startH' = startH
                                /\ attached' = attached \cup {<<"seed", task.n>>}
                           [] task.k = "seed_start" ->
                                /\ service_' = service_ \ {task}
                                /\ startH' = [startH EXCEPT
                                                ![task.n] = Append(@, success)]
                                /\ attached' = attached
       /\ \A task \in service_' \ service_ :
            /\ task.k = "hosts_load"
                 => /\ Task("manual_start", task.who, task.n)
                           \in service_ \ service_'
                    /\ task.n = starts => reported' = success
            /\ task.k = "seed_start"
                 => /\ Task("hosts_load", task.who, task.n)
                           \in service_ \ service_'
                    /\ <<"seed", task.n>> \in attached'
                    /\ task.n = starts => reported' = success
       /\ \A n \in 1..MaxStarts :
            /\ (<<"seed", n>> \in attached' \ attached)
                 => \E task \in service_ \ service_' :
                       task.k = "hosts_load" /\ task.n = n
            /\ (Len(startH'[n]) > Len(startH[n])
                  /\ startH'[n][Len(startH'[n])] = success)
                 => \E task \in service_ \ service_' :
                       task.k = "seed_start" /\ task.n = n
      ]_vars

\* A stage before the Seed session failed on a started instance: the
\* handler received that code and no Seed session was attached.
C11_Witness ==
    /\ starts = 1
    /\ ~stopped_
    /\ reported = file_system
    /\ startH[1] = <<file_system>>
    /\ attached = {<<"manual", 1>>}
    /\ service_ = {}

\* --------------------------------------------------------------------- C12
\* C12: run attaches and starts the Inbound session only; the Inbound
\* continuation passes a failure code unchanged to the handler and attaches
\* nothing, and on success only attaches and starts the Outbound session;
\* the Outbound continuation passes the failure code, or success, to the
\* handler.  An Outbound start is queued only by the Inbound continuation and
\* success is delivered only by the Outbound continuation.
C12_RunChainOrder ==
    [][/\ (runCalls' = runCalls + 1)
            => /\ attached' = attached \cup {<<"inbound", runCalls'>>}
               /\ service_' = service_ \cup
                     {Task("inbound_start", Owner, runCalls')}
               /\ runH' = runH
       /\ \A task \in service_ :
            (task.k \in RunStages /\ task \notin service_'
                /\ task.n = runCalls)
               => IF runEc' # success
                    THEN /\ runH' = [runH EXCEPT
                                       ![task.n] = Append(@, runEc')]
                         /\ service_' = service_ \ {task}
                         /\ attached' = attached
                    ELSE CASE task.k = "inbound_start" ->
                                /\ service_' = (service_ \ {task}) \cup
                                     {Task("outbound_start", task.who, task.n)}
                                /\ runH' = runH
                                /\ attached' = attached \cup
                                                 {<<"outbound", task.n>>}
                           [] task.k = "outbound_start" ->
                                /\ service_' = service_ \ {task}
                                /\ runH' = [runH EXCEPT
                                              ![task.n] = Append(@, success)]
                                /\ attached' = attached
       /\ \A task \in service_' \ service_ :
            task.k = "outbound_start"
               => /\ Task("inbound_start", task.who, task.n)
                         \in service_ \ service_'
                  /\ <<"outbound", task.n>> \in attached'
                  /\ task.n = runCalls => runEc' = success
       /\ \A n \in 1..MaxRuns :
            /\ (<<"outbound", n>> \in attached' \ attached)
                 => \E task \in service_ \ service_' :
                       task.k = "inbound_start" /\ task.n = n
            /\ (Len(runH'[n]) > Len(runH[n])
                  /\ runH'[n][Len(runH'[n])] = success)
                 => \E task \in service_ \ service_' :
                       task.k = "outbound_start" /\ task.n = n
      ]_vars

\* The Inbound session failed: the handler received that code and no
\* Outbound session was attached.
C12_Witness ==
    /\ runCalls = 1
    /\ runEc = file_system
    /\ runH[1] = <<file_system>>
    /\ <<"inbound", 1>> \in attached
    /\ <<"outbound", 1>> \notin attached

\* --------------------------------------------------------------------- C13
\* C13: the last step of an accepted stop leaves the pool without its work,
\* whether or not the hosts save has completed and whatever it reported;
\* the hosts-save completion passes the code the save reported to the stop's
\* handler, once, and changes neither the flag, the Manual session nor the
\* pool; once a stop's handler was invoked the instance is stopped, holds
\* no Manual session and, the stop having returned, the pool has no work.
C13_StopReportsSave ==
    [][/\ \A t \in Callers :
            (pc[t] = "stop_shutdown" /\ pc'[t] # pc[t]) => ~work_'
       /\ \A task \in service_ :
            (task.k = "hosts_save" /\ task \notin service_')
               => /\ saveEc' \in CollabCodes
                  /\ stopH' = [stopH EXCEPT ![<<task.who, task.n>>] =
                                              Append(@, saveEc')]
                  /\ UNCHANGED <<stopped_, manual_, work_>>
       /\ \A id \in StopIds :
            stopH'[id] # <<>>
               => /\ Len(stopH'[id]) = 1
                  /\ stopped_'
                  /\ manual_' = nullptr
                  /\ pc'[id[1]] # "stop_shutdown" => ~work_'
      ]_vars

\* The hosts save failed: the stop's handler received the failure, the
\* instance is stopped without a Manual session and the pool has no work.
C13_Witness ==
    /\ stopH[<<Client, 1>>] = <<file_system>>
    /\ saveEc = file_system
    /\ pc[Client] = "idle"
    /\ stopped_
    /\ manual_ = nullptr
    /\ ~work_

\* --------------------------------------------------------------------- C14
\* The handlers pending in the subscription list.
Pending == {subscriptions[i] : i \in 1..Len(subscriptions)}

\* C14: a relay invokes every pending handler once with its code, invokes
\* no other handler and leaves the list empty; no handler is ever invoked
\* twice, none is pending twice, and a pending handler has not been invoked.
C14_OneShot ==
    [][/\ (subscriptions # <<>> /\ subscriptions' = <<>>)
            => \E code \in {success, service_stopped} :
                 \A s \in 1..MaxSubs :
                    subH'[s] = IF s \in Pending THEN Append(subH[s], code)
                                                ELSE subH[s]
       /\ \A s \in 1..MaxSubs :
            /\ Len(subH'[s]) <= 1
            /\ s \in Pending' => subH'[s] = <<>>
       /\ Cardinality(Pending') = Len(subscriptions')
      ]_vars

\* A relay has invoked the first handler with its code; the handler
\* registered after that relay is pending and was not invoked.
C14_Witness ==
    /\ subH[1] = <<success>>
    /\ subscriptions = <<2>>
    /\ subH[2] = <<>>
    /\ ~stopped_

\* --------------------------------------------------------------------- C15
\* C15: no address is held by two channels and connected_count is the
\* number of addresses held; a store of a channel whose address is held
\* fails and changes nothing, any other store adds the channel; a remove of
\* a held channel leaves its address not connected, a remove of another
\* channel changes nothing; the stop's step on the connections empties the
\* set.
C15_ConnectionsUnique ==
    [][/\ \A x, y \in connections_' : Address(x) = Address(y) => x = y
       /\ connected_count' = Cardinality({Address(x) : x \in connections_'})
       /\ \A t \in Callers :
            /\ (pc[t] = "idle" /\ op'[t] = "store_channel")
                  => IF connected(Address(arg'[t]))
                       THEN /\ ret'[t] = address_in_use
                            /\ connections_' = connections_
                       ELSE /\ ret'[t] = success
                            /\ connections_' = connections_ \cup {arg'[t]}
            /\ (pc[t] = "idle" /\ op'[t] = "remove_channel")
                  => IF arg'[t] \in connections_
                       THEN /\ ret'[t] = success
                            /\ connections_' = connections_ \ {arg'[t]}
                            /\ \A x \in connections_' :
                                  Address(x) # Address(arg'[t])
                            /\ connected_count' = connected_count - 1
                       ELSE /\ ret'[t] = not_found
                            /\ connections_' = connections_
            /\ (pc[t] = "stop_connections" /\ pc'[t] # pc[t])
                  => (connections_' = {} /\ connected_count' = 0)
      ]_vars

\* A second store for an address that is held was refused and the first
\* channel is still the one held.
C15_Witness ==
    /\ op[Client] = "store_channel"
    /\ pc[Client] = "return"
    /\ ret[Client] = address_in_use
    /\ arg[Client] = 2
    /\ connections_ = {1}

\* --------------------------------------------------------------------- C16
\* C16: whenever no call is in progress, the instance is stopped exactly
\* when it holds no Manual session.
C16_ManualIffStarted ==
    (\A t \in Callers : pc[t] = "idle")
       => (stopped_ <=> manual_ = nullptr)

\* --------------------------------------------------------------------- C17
\* C17: at the step in which connect forwards the call, the Manual session
\* reference is not null and is the session of the current run.
C17_ConnectForwardsToManual ==
    [][\A t \in Callers :
        (pc[t] = "connect_forward" /\ pc'[t] # pc[t])
           => (manual_ # nullptr /\ manual_ = starts)
      ]_vars

\* --------------------------------------------------------------------- C18
\* C18: since the last accepted start at most one call of stop or close has
\* passed the stopped check and run the shutdown.
C18_ShutdownOnce ==
    shutdowns <= 1

\* --------------------------------------------------------------------- C19
\* C19: the handler of an accepted start is invoked at most once, and once
\* a start is accepted its handler is eventually invoked (or a later start
\* is accepted).
C19_StartDelivers ==
    \A n \in 1..MaxStarts :
        /\ [](Len(startH[n]) <= 1)
        /\ (starts = n) ~> (startH[n] # <<>> \/ starts > n)

\* --------------------------------------------------------------------- C20
\* C20: a continuation that belongs to a start before the latest accepted
\* one (a stop was accepted and returned in between) queues no further
\* stage, attaches no session and does not deliver success.
C20_StaleChainStops ==
    [][\A task \in service_ :
        (task.k \in StartStages /\ task.n < starts /\ task \notin service_')
           => /\ service_' = service_ \ {task}
              /\ attached' = attached
              /\ startH'[task.n] # Append(startH[task.n], success)
      ]_vars

\* The lifecycle: the owner starts, stops and closes, a client stops.
Next ==
    \/ start(Owner)
    \/ \E t \in Callers : stop(t)
    \/ close(Owner)
    \/ \E t \in Callers : return(t)
    \/ \E task \in service_, ec \in CollabCodes : start_chain(task, ec)
    \/ \E task \in service_ : handle_hosts_saved(task, success)
    \/ thread_exit

Spec == Init /\ [][Next]_vars

\* The instance after a start whose chain has delivered success.
Running ==
    /\ stopped_ = FALSE
    /\ manual_ = 1
    /\ work_ = TRUE
    /\ threads_ = TRUE
    /\ service_ = {}
    /\ subscriptions = <<>>
    /\ connections_ = {}
    /\ pending_ = {}
    /\ hosts_ = {}
    /\ pc = [t \in Callers |-> "idle"]
    /\ op = [t \in Callers |-> none]
    /\ hid = [t \in Callers |-> 0]
    /\ ret = [t \in Callers |-> none]
    /\ fwd = [t \in Callers |-> none]
    /\ arg = [t \in Callers |-> none]
    /\ starts = 1
    /\ runCalls = 0
    /\ subCalls = 0
    /\ attached = {<<"manual", 1>>, <<"seed", 1>>}
    /\ reported = success
    /\ shutdowns = 0
    /\ startH = [NoStartH EXCEPT ![1] = <<success>>]
    /\ runH = [r \in 1..MaxRuns |-> <<>>]
    /\ stopH = NoStopH
    /\ runEc = none
    /\ saveEc = none
    /\ subH = [s \in 1..MaxSubs |-> <<>>]
    /\ acts = [t \in Callers |-> <<>>]

\* A constructed or a running instance.
InitUse == Init \/ Running

\* The instance in use: both callers stop it, the owner closes it, the
\* client subscribes, relays, connects and stores and removes connected
\* channels.
NextUse ==
    \/ \E t \in Callers : stop(t)
    \/ close(Owner)
    \/ \E t \in Callers : return(t)
    \/ subscribe(Client)
    \/ relay(Client)
    \/ connect(Client)
    \/ \E c \in Channels : store_channel(Client, c)
    \/ \E c \in Channels : remove_channel(Client, c)
    \/ \E task \in service_, ec \in CollabCodes : handle_hosts_saved(task, ec)
    \/ thread_exit

SpecUse == InitUse /\ [][NextUse]_vars

\* The collections: the owner stops the instance, the client connects,
\* subscribes and calls every forwarder that changes a collection.
NextReg ==
    \/ stop(Owner)
    \/ \E t \in Callers : return(t)
    \/ subscribe(Client)
    \/ connect(Client)
    \/ \E c \in Channels : pend(Client, c)
    \/ \E c \in Channels : unpend(Client, c)
    \/ \E c \in Channels : store_channel(Client, c)
    \/ \E c \in Channels : remove_channel(Client, c)
    \/ \E list \in SUBSET Addresses : store_addresses(Client, list)
    \/ \E a \in Addresses : remove_address(Client, a)
    \/ \E task \in service_, ec \in CollabCodes : handle_hosts_saved(task, ec)
    \/ thread_exit

SpecReg == InitUse /\ [][NextReg]_vars

\* The run chain.
run_chain(task, ec) ==
    \/ handle_inbound_started(task, ec)
    \/ handle_outbound_started(task, ec)

\* The two chains: the owner starts and runs, the client stops.
NextRun ==
    \/ start(Owner)
    \/ run(Owner)
    \/ stop(Client)
    \/ \E t \in Callers : return(t)
    \/ \E task \in service_, ec \in CollabCodes : start_chain(task, ec)
    \/ \E task \in service_, ec \in CollabCodes : run_chain(task, ec)
    \/ \E task \in service_ : handle_hosts_saved(task, success)
    \/ thread_exit

SpecRun == Init /\ [][NextRun]_vars

\* A caller inside start or stop executes the method's next statement.
Continue(t) ==
    \/ start_set(t)
    \/ start_join(t)
    \/ start_attach(t)
    \/ stop_set(t)
    \/ stop_manual(t)
    \/ stop_relay(t)
    \/ stop_connections(t)
    \/ stop_save(t)
    \/ stop_shutdown(t)
    \/ return(t)

\* The pool threads run a queued handler of the start chain, the
\* collaborator having reported some code.
PoolRuns == \E task \in service_, ec \in CollabCodes : start_chain(task, ec)

\* The pool threads run a queued hosts-save completion.
PoolSaves == \E task \in service_ : handle_hosts_saved(task, success)

\* One thread makes every call, one after the other: start, stop, start.
NextSeq ==
    \/ start(Owner)
    \/ stop(Owner)
    \/ return(Owner)
    \/ PoolRuns
    \/ PoolSaves
    \/ thread_exit

SpecSeq == Init /\ [][NextSeq]_vars

\* The owner starts, the client stops.
NextLive ==
    \/ start(Owner)
    \/ stop(Client)
    \/ \E t \in Callers : return(t)
    \/ PoolRuns
    \/ PoolSaves
    \/ thread_exit

\* Threads keep running: a caller inside a method goes on to its next
\* statement, a running pool thread goes on to a queued handler, every
\* collaborator reports, and a pool thread without work returns.  Whether
\* and when start and stop are called is up to the callers.
Fairness ==
    /\ \A t \in Callers : WF_vars(Continue(t))
    /\ WF_vars(PoolRuns)
    /\ WF_vars(PoolSaves)
    /\ WF_vars(thread_exit)

SpecLive == Init /\ [][NextLive]_vars /\ Fairness

====
